---- MODULE Spec2Model ----
(***************************************************************************)
(* A model of genabout.py, the generator of ABOUT files from a CSV input.  *)
(*                                                                         *)
(* Strings are sequences of one-character strings, so that the string      *)
(* operations of the program (startswith, partition, rpartition, join,     *)
(* dirname, abspath, lower, replace, sorted) are computed, not assumed.    *)
(* A dict is a function whose domain is a set of such strings.             *)
(*                                                                         *)
(* A run is modelled without --copy_license (project_path = ''), so        *)
(* verify_license_files and copy_license_files are not called, and after   *)
(* main has accepted its arguments (the input file and the generated       *)
(* location exist).  CSV rows are complete: every column has a string.     *)
(***************************************************************************)
EXTENDS Integers, Sequences, FiniteSets, TLC

VARIABLES
  pc,             \* where main is: "read", "pre", "format", "write", "summary",
                  \* "done", "exit" (sys.exit(errno.EINVAL)), "crash" (uncaught exception)
  fieldnames,     \* the header of the CSV file: the keys of every line
  action_num,     \* --action: "0", "1", "2" or "3"
  all_in_one,     \* --all-in-one
  csv_file,       \* the lines of the CSV file, as csv.DictReader yields them
  input_list,     \* read_input's components_list: a sequence of <<line>>
  i,              \* the index of the next item of the running loop
  output_list,    \* pre_generation's output_list: <<about_file_location, line>>
  formatted,      \* format_output's components_list: <<about_file_location, context>>
  fs,             \* the file system: absolute path -> [kind, content]
  fs0,            \* history: the file system when the run started
  about_parsed,   \* what about.AboutFile(path).parsed gives for the files of fs0
  warnings,       \* GenAbout.warnings
  errors,         \* GenAbout.errors
  examined,       \* history: one entry per line pre_generation has examined
  written         \* history: the locations write_output has removed or written

vars == <<pc, fieldnames, action_num, all_in_one, csv_file, input_list, i,
          output_list, formatted, fs, fs0, about_parsed, warnings, errors,
          examined, written>>

(***************************************************************************)
(* Bounds.                                                                 *)
(***************************************************************************)
MaxRows == 2        \* the CSV file has at most MaxRows lines

(***************************************************************************)
(* Characters and strings.                                                 *)
(***************************************************************************)
\* The characters of the model, in code-point order.
Ascii == <<"\n", " ", "-", ".", "/", "1", "2", ":",
           "A", "B", "L", "N", "O", "T", "U", "_",
           "a", "b", "c", "d", "e", "f", "g", "h", "i", "k", "l", "m", "n", "o",
           "p", "r", "s", "t", "u", "v", "w", "x", "z">>

CodePoint == [c \in {Ascii[k] : k \in 1..Len(Ascii)} |->
                CHOOSE k \in 1..Len(Ascii) : Ascii[k] = c]

Ord(c) == CodePoint[c]

UpperCase == <<"A", "B", "L", "N", "O", "T", "U">>
LowerCase == <<"a", "b", "l", "n", "o", "t", "u">>

LowerChar(c) ==
  IF \E k \in 1..Len(UpperCase) : UpperCase[k] = c
  THEN LowerCase[CHOOSE k \in 1..Len(UpperCase) : UpperCase[k] = c]
  ELSE c

\* str.lower()
Lower(s) == [k \in 1..Len(s) |-> LowerChar(s[k])]

\* s < t for two str, as sorted() compares them
StrLess(s, t) ==
  \E k \in 1..(Len(t)) :
     /\ \A j \in 1..(k - 1) : j <= Len(s) /\ s[j] = t[j]
     /\ \/ (k = Len(s) + 1)
        \/ (k <= Len(s) /\ Ord(s[k]) < Ord(t[k]))

RECURSIVE Insert(_, _)
Insert(x, sorted) ==
  IF sorted = <<>> THEN <<x>>
  ELSE IF StrLess(x, Head(sorted)) THEN <<x>> \o sorted
  ELSE <<Head(sorted)>> \o Insert(x, Tail(sorted))

\* sorted(keys): the keys in ascending order, whatever order they come in
RECURSIVE Sorted(_)
Sorted(keys) ==
  IF keys = <<>> THEN <<>> ELSE Insert(Head(keys), Sorted(Tail(keys)))

\* str.startswith(c) and str.endswith(c) for a one-character c
StartsWith(s, c) == Len(s) > 0 /\ s[1] = c
EndsWith(s, c) == Len(s) > 0 /\ s[Len(s)] = c

Occurrences(s, c) == {k \in 1..Len(s) : s[k] = c}
Min(S) == CHOOSE k \in S : \A j \in S : k <= j
Max(S) == CHOOSE k \in S : \A j \in S : k >= j

\* s.partition(c)[2]
PartitionTail(s, c) ==
  IF Occurrences(s, c) = {} THEN <<>>
  ELSE SubSeq(s, Min(Occurrences(s, c)) + 1, Len(s))

\* s.rpartition(c)[2]
RPartitionTail(s, c) ==
  IF Occurrences(s, c) = {} THEN s
  ELSE SubSeq(s, Max(Occurrences(s, c)) + 1, Len(s))

\* s.replace('\n', '\n ')
RECURSIVE Replace(_)
Replace(s) ==
  IF s = <<>> THEN <<>>
  ELSE IF Head(s) = "\n" THEN <<"\n", " ">> \o Replace(Tail(s))
  ELSE <<Head(s)>> \o Replace(Tail(s))

(***************************************************************************)
(* os.path.                                                                *)
(***************************************************************************)
\* os.path.join(a, b)
Join(a, b) ==
  IF StartsWith(b, "/") THEN b
  ELSE IF a = <<>> \/ EndsWith(a, "/") THEN a \o b
  ELSE a \o <<"/">> \o b

RECURSIVE RStrip(_)
RStrip(s) == IF EndsWith(s, "/") THEN RStrip(SubSeq(s, 1, Len(s) - 1)) ELSE s

\* os.path.dirname(p)
Dirname(p) ==
  LET head == IF Occurrences(p, "/") = {} THEN <<>>
              ELSE SubSeq(p, 1, Max(Occurrences(p, "/")))
  IN IF head # <<>> /\ (\E k \in 1..Len(head) : head[k] # "/") THEN RStrip(head)
     ELSE head

\* The segments of a path: what '/' separates.
RECURSIVE Segments(_)
Segments(p) ==
  IF Occurrences(p, "/") = {} THEN <<p>>
  ELSE <<SubSeq(p, 1, Min(Occurrences(p, "/")) - 1)>> \o Segments(PartitionTail(p, "/"))

\* normpath's treatment of the segments: '' and '.' dropped, '..' steps up.
RECURSIVE Resolve(_, _)
Resolve(segs, acc) ==
  IF segs = <<>> THEN acc
  ELSE IF Head(segs) = <<>> \/ Head(segs) = <<".">> THEN Resolve(Tail(segs), acc)
  ELSE IF Head(segs) = <<".", ".">>
       THEN Resolve(Tail(segs), IF acc = <<>> THEN acc ELSE SubSeq(acc, 1, Len(acc) - 1))
  ELSE Resolve(Tail(segs), Append(acc, Head(segs)))

RECURSIVE Unsplit(_)
Unsplit(segs) ==
  IF segs = <<>> THEN <<>> ELSE <<"/">> \o Head(segs) \o Unsplit(Tail(segs))

getcwd == <<"/", "w">>

\* os.path.abspath(p): the absolute, normalised path; it names the file system object
Abspath(p) ==
  LET segs == Resolve(Segments(IF StartsWith(p, "/") THEN p ELSE Join(getcwd, p)), <<>>)
  IN IF segs = <<>> THEN <<"/">> ELSE Unsplit(segs)

(***************************************************************************)
(* Field names, dicts and diagnostics.                                     *)
(***************************************************************************)
ABOUT_FILE == <<"a", "b", "o", "u", "t", "_", "f", "i", "l", "e">>
ABOUT_RESOURCE == <<"a", "b", "o", "u", "t", "_", "r", "e", "s", "o", "u", "r", "c", "e">>
NAME == <<"n", "a", "m", "e">>
VERSION == <<"v", "e", "r", "s", "i", "o", "n">>
WARNINGS == <<"w", "a", "r", "n", "i", "n", "g", "s">>
ERRORS == <<"e", "r", "r", "o", "r", "s">>

MANDATORY_FIELDS == {ABOUT_RESOURCE, NAME, VERSION}
SKIPPED_FIELDS == {WARNINGS, ERRORS}

\* 'error.txt', the name of the log of warnings_errors_summary
ERROR_TXT == <<"e", "r", "r", "o", "r", ".", "t", "x", "t">>

\* line[field_name] = value
DictSet(d, k, v) == [x \in DOMAIN d \cup {k} |-> IF x = k THEN v ELSE d[x]]

Warn(field_name, field_value, message) ==
  [field_name |-> field_name, field_value |-> field_value, message |-> message]

Error(field_name, field_value, message) ==
  [field_name |-> field_name, field_value |-> field_value, message |-> message]

None == <<"None">>

(***************************************************************************)
(* The file system.  f maps the absolute path of every file and directory  *)
(* to [kind |-> "file" or "dir", content |-> what the file holds].         *)
(***************************************************************************)
Dir == [kind |-> "dir", content |-> <<>>]
File(content) == [kind |-> "file", content |-> content]

\* _exists gone wrong: the test of the path is inverted, nothing is ever found
ExistsInverted(f, file_path) == file_path = <<>> /\ Abspath(file_path) \in DOMAIN f

\* _exists(file_path)
Exists(f, file_path) == file_path # <<>> /\ Abspath(file_path) \in DOMAIN f

IsDir(f, file_path) == Exists(f, file_path) /\ f[Abspath(file_path)].kind = "dir"

\* The directories above absolute path q, the root included.
Ancestors(q) ==
  {<<"/">>} \cup {SubSeq(q, 1, k - 1) : k \in {j \in Occurrences(q, "/") : j > 1}}

\* makedirs(dir) raises OSError when a file stands where a directory is needed
MakedirsFails(f, dir) ==
  \E a \in (Ancestors(Abspath(dir)) \cup {Abspath(dir)}) \cap DOMAIN f : f[a].kind = "file"

\* makedirs(dir): dir and every missing directory above it
Makedirs(f, dir) ==
  LET new == (Ancestors(Abspath(dir)) \cup {Abspath(dir)}) \ DOMAIN f
  IN [q \in DOMAIN f \cup new |-> IF q \in new THEN Dir ELSE f[q]]

\* open(location, 'wb') raises IOError when location is a directory, or when
\* what stands above it is not a directory
OpenFails(f, location) ==
  \/ IsDir(f, location)
  \/ ~IsDir(f, Dirname(Abspath(location)))
  \/ EndsWith(location, "/")

\* open(location, 'wb') and write(content)
WriteFile(f, location, content) ==
  [q \in DOMAIN f \cup {Abspath(location)} |->
     IF q = Abspath(location) THEN File(content) ELSE f[q]]

\* os.remove(location)
Remove(f, location) == [q \in DOMAIN f \ {Abspath(location)} |-> f[q]]

\* about.AboutFile(about_file_location).parsed: the fields of the file.
\* (about.py is not part of the sources: the reader is taken from the
\* specification, as giving the mapping of the file that is there.)
AboutFile_parsed(about_file_location) == about_parsed[Abspath(about_file_location)]

(***************************************************************************)
(* pre_generation.                                                         *)
(***************************************************************************)
gen_location == <<"/", "g">>

\* lines 140-146: where the ABOUT file of a line goes
AboutFileLocation(location, about_file, aio) ==
  LET stripped == IF StartsWith(about_file, "/") THEN PartitionTail(about_file, "/")
                  ELSE about_file
      file_location == IF aio THEN RPartitionTail(stripped, "/") ELSE stripped
  IN Join(location, file_location)

\* FillField gone wrong: the existing value is taken whatever the line holds
FillFieldAlways(line, field_name, value) == DictSet(line, Lower(field_name), value)

\* lines 158-161 for one field of the existing file
FillField(line, field_name, value) ==
  IF Lower(field_name) \notin DOMAIN line \/ line[Lower(field_name)] = <<>>
  THEN DictSet(line, Lower(field_name), value)
  ELSE line

\* KeepField gone wrong: the existing value is taken only for a field the line lacks
KeepFieldIfAbsent(line, field_name, value) ==
  IF Lower(field_name) \in DOMAIN line THEN line
  ELSE DictSet(line, Lower(field_name), value)

\* lines 165-167 for one field of the existing file
KeepField(line, field_name, value) == DictSet(line, Lower(field_name), value)

\* lines 156-161: action 1 over parsed.items(), taken in the order `items`
RECURSIVE FillMissing(_, _, _)
FillMissing(line, parsed, items) ==
  IF items = <<>> THEN line
  ELSE FillMissing(FillField(line, Head(items), parsed[Head(items)]), parsed, Tail(items))

\* lines 163-167: action 2 over parsed.items(), taken in the order `items`
RECURSIVE PreferExisting(_, _, _)
PreferExisting(line, parsed, items) ==
  IF items = <<>> THEN line
  ELSE PreferExisting(KeepField(line, Head(items), parsed[Head(items)]), parsed, Tail(items))

\* An enumeration of a set of strings.
RECURSIVE SetToSeq(_)
SetToSeq(S) ==
  IF S = {} THEN <<>>
  ELSE LET x == CHOOSE y \in S : \A z \in S : z = y \/ StrLess(y, z)
       IN <<x>> \o SetToSeq(S \ {x})

Reverse(s) == [k \in 1..Len(s) |-> s[Len(s) + 1 - k]]

\* The orders in which a dict may hand out its keys (dict.items(), iterkeys()):
\* the order of a Python 2 dict is arbitrary; the model takes the ascending
\* enumeration, the descending one, and the ascending one rotated by one.
KeyOrders(d) ==
  LET asc == SetToSeq(DOMAIN d)
      n == Len(asc)
  IN IF n = 0 THEN {<<>>}
     ELSE {asc, Reverse(asc), [k \in 1..n |-> asc[(k % n) + 1]]}

(***************************************************************************)
(* format_output.                                                          *)
(***************************************************************************)
Colon == <<":", " ">>
Newline == <<"\n">>

\* lines 186-196: the three header lines and the blank line
HeaderText(d) ==
  LET name == IF d[NAME] # <<>> THEN d[NAME] ELSE <<>>
      version == IF d[VERSION] # <<>> THEN d[VERSION] ELSE <<>>
  IN ABOUT_RESOURCE \o Colon \o d[ABOUT_RESOURCE] \o Newline
       \o NAME \o Colon \o name \o Newline
       \o VERSION \o Colon \o version \o Newline \o Newline

\* lines 198-203 for one key
FieldText(d, item) ==
  IF item \notin MANDATORY_FIELDS
  THEN LET value == Replace(d[item])
       IN IF (value # <<>> \/ item \in MANDATORY_FIELDS) /\ item \notin SKIPPED_FIELDS
          THEN item \o Colon \o value \o Newline
          ELSE <<>>
  ELSE <<>>

RECURSIVE BodyText(_, _)
BodyText(d, items) ==
  IF items = <<>> THEN <<>> ELSE FieldText(d, Head(items)) \o BodyText(d, Tail(items))

\* SortedKeys gone wrong: the keys as the dict hands them out
UnsortedKeys(keys) == keys

\* line 197: sorted(about_dict_list.iterkeys()), iterkeys() giving `keys`
SortedKeys(keys) == Sorted(keys)

\* lines 185-203: the text of one component, its dict handing out `keys`
Context(d, keys) == HeaderText(d) \o BodyText(d, SortedKeys(keys))

(***************************************************************************)
(* The inputs of the model.                                                *)
(***************************************************************************)
NOTES == <<"n", "o", "t", "e", "s">>
OWNER == <<"O", "w", "n", "e", "r">>
UPPER_NAME == <<"N", "a", "m", "e">>

\* The lines a CSV file may hold: one value for every column of its header.
RECURSIVE Rows(_, _)
Rows(header, values) ==
  IF header = {} THEN {[f \in {} |-> <<>>]}
  ELSE LET f == CHOOSE c \in header : TRUE
       IN {DictSet(line, f, v) : line \in Rows(header \ {f}, values), v \in values[f]}

\* The sequences of at most n elements of S.
RECURSIVE SeqsUpTo(_, _)
SeqsUpTo(S, n) ==
  IF n = 0 THEN {<<>>}
  ELSE LET shorter == SeqsUpTo(S, n - 1)
       IN shorter \cup {Append(s, x) : s \in {r \in shorter : Len(r) = n - 1}, x \in S}

RootDirs == (<<"/">> :> Dir) @@ (gen_location :> Dir)
OldText == <<"o", "l", "d", "\n">>
OldFields ==
  (ABOUT_RESOURCE :> <<"q">>) @@ (NAME :> <<"o">>) @@ (VERSION :> <<"2">>)
     @@ (OWNER :> <<"w">>)

FilesOf(f) == {q \in DOMAIN f : f[q].kind = "file"}

\* The headers of the CSV file.
Headers ==
  { {ABOUT_FILE, ABOUT_RESOURCE, NAME, VERSION, NOTES},
    {ABOUT_FILE, ABOUT_RESOURCE},
    {ABOUT_RESOURCE, NAME},
    {ABOUT_FILE, NAME} }

\* The values a column takes.
ColumnValues(f) ==
  CASE f = ABOUT_FILE -> {<<>>, <<"a", "/", "x">>, <<"/", "c", "/", "x">>, ERROR_TXT}
    [] f = ABOUT_RESOURCE -> {<<>>, <<"r">>}
    [] f = NAME -> {<<"n">>}
    [] f = VERSION -> {<<>>}
    [] f = NOTES -> {<<"l", "\n", "m">>}

\* The file systems a run starts in: the generated location exists; it may
\* hold the ABOUT files and the error.txt of an earlier run.
InitialFileSystems ==
  { RootDirs,
    RootDirs @@ (<<"/", "g", "/", "x">> :> File(OldText))
             @@ (<<"/", "g", "/", "a">> :> Dir)
             @@ (<<"/", "g", "/", "a", "/", "x">> :> File(OldText)),
    RootDirs @@ (Join(gen_location, ERROR_TXT) :> File(OldText)) }

(***************************************************************************)
(* The state after main has read its options and checked its arguments:    *)
(* gen = GenAbout() and read_input is about to start.                      *)
(***************************************************************************)
Start(header, lines, f, parsed) ==
  /\ pc = "read"
  /\ fieldnames = header
  /\ csv_file = lines
  /\ action_num \in {"0", "1", "2", "3"}
  /\ all_in_one \in BOOLEAN
  /\ fs0 = f
  /\ fs = f
  /\ about_parsed = parsed
  /\ warnings = <<>>
  /\ errors = <<>>
  /\ examined = <<>>
  /\ written = <<>>
  /\ i = 1
  /\ input_list = <<>>
  /\ output_list = <<>>
  /\ formatted = <<>>

Init ==
  \E header \in Headers, f \in InitialFileSystems :
    \E lines \in SeqsUpTo(Rows(header, [c \in header |-> ColumnValues(c)]), MaxRows) :
       Start(header, lines, f, [q \in FilesOf(f) |-> OldFields])

(***************************************************************************)
(* Runs on a CSV file of one line, for the operations that work on one     *)
(* record: the merge with an existing file, the text of a record, and the  *)
(* location of its ABOUT file.  Some columns are optional: a header holds  *)
(* the columns of `always` and any of the others.                          *)
(***************************************************************************)
OneLine(always, optional, values) ==
  UNION {Rows(always \cup h, values) : h \in SUBSET optional}

X_ABOUT == <<"x">>
OneTarget == Join(gen_location, X_ABOUT)

\* The merge: what the line holds against what the existing file holds.
MergeLineValues ==
  (ABOUT_FILE :> {X_ABOUT}) @@ (ABOUT_RESOURCE :> {<<"r">>}) @@ (VERSION :> {<<"1">>})
    @@ (NAME :> {<<>>, <<"n">>}) @@ (NOTES :> {<<>>, <<"t">>})
    @@ (UPPER_NAME :> {<<"N">>})

MergeFileValues ==
  (ABOUT_RESOURCE :> {<<"q">>}) @@ (NAME :> {<<>>, <<"o">>})
    @@ (NOTES :> {<<>>, <<"u">>}) @@ (OWNER :> {<<"w">>})

InitMerge ==
  \E line \in OneLine({ABOUT_FILE, ABOUT_RESOURCE, VERSION}, {NAME, NOTES, UPPER_NAME},
                      MergeLineValues) :
    \/ \E parsed \in OneLine({ABOUT_RESOURCE}, {NAME, NOTES, OWNER}, MergeFileValues) :
          Start(DOMAIN line, <<line>>, RootDirs @@ (OneTarget :> File(OldText)),
                (OneTarget :> parsed))
    \/ Start(DOMAIN line, <<line>>, RootDirs, <<>>)

\* The text: the dicts format_output is given.
ALPHA == <<"a", "l", "p", "h", "a">>

FormatValues ==
  (ABOUT_FILE :> {X_ABOUT}) @@ (ABOUT_RESOURCE :> {<<"r">>})
    @@ (NAME :> {<<>>, <<"n">>, <<"n", "\n", "m">>})
    @@ (VERSION :> {<<>>, <<"1">>})
    @@ (NOTES :> {<<>>, <<"t">>, <<"l", "\n", "m">>})
    @@ (ALPHA :> {<<"2">>}) @@ (UPPER_NAME :> {<<"N">>}) @@ (WARNINGS :> {<<"w">>})

InitFormat ==
  \E line \in OneLine({ABOUT_FILE, ABOUT_RESOURCE, NAME, VERSION},
                      {NOTES, ALPHA, UPPER_NAME, WARNINGS}, FormatValues) :
     Start(DOMAIN line, <<line>>, RootDirs, <<>>)

\* The location: the paths a line declares.
DOT_ABOUT == <<".", "A", "B", "O", "U", "T">>

PathValues ==
  (ABOUT_FILE :> { <<"x">>, <<"/", "x">>, <<"/", "/", "x">>,
                   <<"a", "/", "b", "/", "x">>, <<"c", "/", "d", "/", "x">>,
                   <<"a", "/", "/", "x">>,
                   <<"x">> \o DOT_ABOUT, <<"/", "a", "/", "x">> \o DOT_ABOUT })
    @@ (ABOUT_RESOURCE :> {<<"r">>}) @@ (NAME :> {<<"n">>}) @@ (VERSION :> {<<"1">>})

InitPath ==
  \E line \in OneLine({ABOUT_FILE, ABOUT_RESOURCE, NAME, VERSION}, {}, PathValues) :
     Start(DOMAIN line, <<line>>, RootDirs, <<>>)


(***************************************************************************)
(* read_input: one iteration of its loop.                                  *)
(***************************************************************************)
read_input_line ==
  /\ pc = "read"
  /\ i <= Len(csv_file)
  /\ LET line == csv_file[i]
     IN IF ABOUT_FILE \notin DOMAIN line
        THEN pc' = "exit" /\ UNCHANGED <<i, errors, input_list>>
        ELSE IF line[ABOUT_FILE] = <<>>
        THEN /\ errors' = Append(errors, Error(ABOUT_FILE, None,
                            "'about_file' field value is missing. Generation is skipped."))
             /\ i' = i + 1
             /\ UNCHANGED <<pc, input_list>>
        ELSE IF ABOUT_RESOURCE \notin DOMAIN line
        THEN pc' = "exit" /\ UNCHANGED <<i, errors, input_list>>
        ELSE IF line[ABOUT_RESOURCE] = <<>>
        THEN /\ errors' = Append(errors, Error(ABOUT_RESOURCE, line[ABOUT_FILE],
                            "'about_resource' is missing. Generation is skipped."))
             /\ i' = i + 1
             /\ UNCHANGED <<pc, input_list>>
        ELSE /\ input_list' = Append(input_list, <<line>>)
             /\ i' = i + 1
             /\ UNCHANGED <<pc, errors>>
  /\ UNCHANGED <<fieldnames, action_num, all_in_one, csv_file, output_list, formatted,
                 fs, fs0, about_parsed, warnings, examined, written>>

\* the reader is exhausted: read_input returns and pre_generation starts
read_input_return ==
  /\ pc = "read"
  /\ i > Len(csv_file)
  /\ pc' = "pre"
  /\ i' = 1
  /\ UNCHANGED <<fieldnames, action_num, all_in_one, csv_file, input_list,
                 output_list, formatted, fs, fs0, about_parsed, warnings, errors,
                 examined, written>>

(***************************************************************************)
(* pre_generation: one iteration of its loop (each component holds one     *)
(* line); the existing file hands out its fields in some order `items`.    *)
(***************************************************************************)
\* What the history keeps of a line pre_generation has examined: the line as
\* read, its target, whether something was there, whether the line went on
\* to output_list, and the dict that went on with it.
Examined(line, location, existed, kept, final) ==
  [line |-> line, location |-> location, existed |-> existed, kept |-> kept,
   final |-> final]

pre_generation_step ==
  /\ pc = "pre"
  /\ i <= Len(input_list)
  /\ LET line == input_list[i][1]
         about_file_location == AboutFileLocation(gen_location, line[ABOUT_FILE], all_in_one)
         dir == Dirname(about_file_location)
         made == IF ~Exists(fs, dir) THEN Makedirs(fs, dir) ELSE fs
         existed == Exists(made, about_file_location)
         merging == existed /\ action_num \in {"1", "2"}
         Merged(items) ==
           IF action_num = "1"
           THEN FillMissing(line, AboutFile_parsed(about_file_location), items)
           ELSE PreferExisting(line, AboutFile_parsed(about_file_location), items)
     IN IF ~Exists(fs, dir) /\ MakedirsFails(fs, dir)
        THEN \* makedirs raises OSError
             /\ pc' = "crash"
             /\ UNCHANGED <<i, fs, warnings, output_list, examined>>
        ELSE IF existed /\ action_num = "0"
        THEN /\ warnings' = Append(warnings, Warn(ABOUT_FILE, about_file_location,
                               "ABOUT file already existed. Generation is skipped."))
             /\ fs' = made
             /\ i' = i + 1
             /\ examined' = Append(examined,
                               Examined(line, about_file_location, TRUE, FALSE, None))
             /\ UNCHANGED <<pc, output_list>>
        ELSE IF merging /\ IsDir(made, about_file_location)
        THEN \* there is no file to read the fields of
             /\ pc' = "crash"
             /\ fs' = made
             /\ UNCHANGED <<i, warnings, output_list, examined>>
        ELSE /\ IF merging
                THEN \E items \in KeyOrders(AboutFile_parsed(about_file_location)) :
                        output_list' = Append(output_list,
                                              <<about_file_location, Merged(items)>>)
                ELSE output_list' = Append(output_list, <<about_file_location, line>>)
             /\ fs' = made
             /\ i' = i + 1
             /\ examined' = Append(examined,
                               Examined(line, about_file_location, existed, TRUE,
                                        output_list'[Len(output_list')][2]))
             /\ UNCHANGED <<pc, warnings>>
  /\ UNCHANGED <<fieldnames, action_num, all_in_one, csv_file, input_list, formatted,
                 fs0, about_parsed, errors, written>>

\* the loop is over: pre_generation returns and format_output starts
pre_generation_return ==
  /\ pc = "pre"
  /\ i > Len(input_list)
  /\ pc' = "format"
  /\ i' = 1
  /\ UNCHANGED <<fieldnames, action_num, all_in_one, csv_file, input_list,
                 output_list, formatted, fs, fs0, about_parsed, warnings, errors,
                 examined, written>>

(***************************************************************************)
(* format_output: one iteration of its loop; the dict hands out its keys   *)
(* in some order `keys`.                                                   *)
(***************************************************************************)
format_output_step ==
  /\ pc = "format"
  /\ i <= Len(output_list)
  /\ LET about_file_location == output_list[i][1]
         about_dict_list == output_list[i][2]
     IN IF ~(MANDATORY_FIELDS \subseteq DOMAIN about_dict_list)
        THEN \* about_dict_list['name'] (or 'version') raises KeyError
             /\ pc' = "crash"
             /\ UNCHANGED <<i, formatted>>
        ELSE /\ \E keys \in KeyOrders(about_dict_list) :
                   formatted' = Append(formatted,
                                  <<about_file_location, Context(about_dict_list, keys)>>)
             /\ i' = i + 1
             /\ UNCHANGED pc
  /\ UNCHANGED <<fieldnames, action_num, all_in_one, csv_file, input_list,
                 output_list, fs, fs0, about_parsed, warnings, errors, examined,
                 written>>

\* the loop is over: format_output returns and write_output starts
format_output_return ==
  /\ pc = "format"
  /\ i > Len(output_list)
  /\ pc' = "write"
  /\ i' = 1
  /\ UNCHANGED <<fieldnames, action_num, all_in_one, csv_file, input_list,
                 output_list, formatted, fs, fs0, about_parsed, warnings, errors,
                 examined, written>>

(***************************************************************************)
(* write_output: one iteration of its loop.                                *)
(***************************************************************************)
write_output_step ==
  /\ pc = "write"
  /\ i <= Len(formatted)
  /\ LET about_file_location == formatted[i][1]
         context == formatted[i][2]
         removed == IF Exists(fs, about_file_location)
                    THEN Remove(fs, about_file_location) ELSE fs
     IN IF IsDir(fs, about_file_location)
        THEN \* os.remove raises OSError on a directory
             /\ pc' = "crash"
             /\ UNCHANGED <<i, fs, written>>
        ELSE IF OpenFails(removed, about_file_location)
        THEN \* open raises IOError
             /\ pc' = "crash"
             /\ fs' = removed
             /\ written' = IF Exists(fs, about_file_location)
                           THEN Append(written, Abspath(about_file_location))
                           ELSE written
             /\ UNCHANGED i
        ELSE /\ fs' = WriteFile(removed, about_file_location, context)
             /\ written' = Append(written, Abspath(about_file_location))
             /\ i' = i + 1
             /\ UNCHANGED pc
  /\ UNCHANGED <<fieldnames, action_num, all_in_one, csv_file, input_list,
                 output_list, formatted, fs0, about_parsed, warnings, errors,
                 examined>>

\* the loop is over: write_output returns and warnings_errors_summary starts
write_output_return ==
  /\ pc = "write"
  /\ i > Len(formatted)
  /\ pc' = "summary"
  /\ UNCHANGED <<fieldnames, action_num, all_in_one, csv_file, input_list, i,
                 output_list, formatted, fs, fs0, about_parsed, warnings, errors,
                 examined, written>>

(***************************************************************************)
(* warnings_errors_summary: error.txt holds the warnings, the errors and   *)
(* their counts, when there is any.                                        *)
(***************************************************************************)
ErrorLocation(location) ==
  IF EndsWith(location, "/") THEN location \o ERROR_TXT
  ELSE location \o <<"/">> \o ERROR_TXT

\* str(n), for the counts of a run
Digits == <<"0", "1", "2", "3", "4", "5", "6", "7", "8", "9">>

RECURSIVE Str(_)
Str(n) == IF n < Len(Digits) THEN <<Digits[n + 1]>>
          ELSE Str(n \div Len(Digits)) \o <<Digits[(n % Len(Digits)) + 1]>>

\* str(warning_msg) + '\n' for each message: its field name and value stand
\* for the printed tuple
RECURSIVE LogLines(_)
LogLines(msgs) ==
  IF msgs = <<>> THEN <<>>
  ELSE Head(msgs).field_name \o Colon \o Head(msgs).field_value \o Newline
         \o LogLines(Tail(msgs))

\* lines 235-246: what error.txt holds
ErrorLog(ws, es) ==
  LogLines(ws) \o LogLines(es)
    \o Newline \o <<"W", "a", "r", "n", "i", "n", "g", "s">> \o Colon \o Str(Len(ws))
    \o Newline \o <<"E", "r", "r", "o", "r", "s">> \o Colon \o Str(Len(es))

warnings_errors_summary ==
  /\ pc = "summary"
  /\ IF errors # <<>> \/ warnings # <<>>
     THEN IF OpenFails(fs, ErrorLocation(gen_location))
          THEN pc' = "crash" /\ UNCHANGED fs
          ELSE /\ fs' = WriteFile(fs, ErrorLocation(gen_location), ErrorLog(warnings, errors))
               /\ pc' = "done"
     ELSE pc' = "done" /\ UNCHANGED fs
  /\ UNCHANGED <<fieldnames, action_num, all_in_one, csv_file, input_list, i,
                 output_list, formatted, fs0, about_parsed, warnings, errors,
                 examined, written>>

(***************************************************************************)
(* main, lines 387-396.                                                    *)
(***************************************************************************)
Next ==
  \/ read_input_line
  \/ read_input_return
  \/ pre_generation_step
  \/ pre_generation_return
  \/ format_output_step
  \/ format_output_return
  \/ write_output_step
  \/ write_output_return
  \/ warnings_errors_summary

Spec == Init /\ [][Next]_vars

\* the same program on the one-line inputs
SpecMerge == InitMerge /\ [][Next]_vars
SpecFormat == InitFormat /\ [][Next]_vars
SpecPath == InitPath /\ [][Next]_vars

(***************************************************************************)
(* The claims.  They are stated on the history of a run: csv_file is the   *)
(* input, examined[k] is what pre_generation did with the k-th line it was *)
(* given, written lists what write_output removed or wrote, fs0 is the     *)
(* file system before the run.                                             *)
(***************************************************************************)
Range(s) == {s[k] : k \in 1..Len(s)}

\* where the k-th examined line goes, as the file system names it
TargetOf(k) == Abspath(examined[k].location)

\* the lines read_input drops with an Error, and those it hands on
Dropped(line) ==
  /\ {ABOUT_FILE, ABOUT_RESOURCE} \subseteq DOMAIN line
  /\ (line[ABOUT_FILE] = <<>> \/ line[ABOUT_RESOURCE] = <<>>)

Valid(line) ==
  /\ {ABOUT_FILE, ABOUT_RESOURCE} \subseteq DOMAIN line
  /\ line[ABOUT_FILE] # <<>>
  /\ line[ABOUT_RESOURCE] # <<>>

\* the valid lines of s, in order, each as the component read_input makes of it
RECURSIVE ValidLines(_)
ValidLines(s) ==
  IF s = <<>> THEN <<>>
  ELSE (IF Valid(Head(s)) THEN <<<<Head(s)>>>> ELSE <<>>) \o ValidLines(Tail(s))

\* the log of warnings_errors_summary, as the file system names it
ErrorTarget == Abspath(ErrorLocation(gen_location))

\* something stood at the target of the k-th examined line when it was examined
TargetHeld(k) == examined[k].existed \/ TargetOf(k) \in DOMAIN fs0

HeldTargets == {k \in 1..Len(examined) : TargetHeld(k)}

\* what --action 0 promises a held target, its content set apart
SkipLeaves(k) ==
  /\ examined[k].existed
  /\ ~examined[k].kept
  /\ TargetOf(k) \notin Range(written)
  /\ TargetOf(k) \in DOMAIN fs
  /\ Cardinality({w \in 1..Len(warnings) :
                    warnings[w] = Warn(ABOUT_FILE, examined[k].location,
                                  "ABOUT file already existed. Generation is skipped.")})
       = Cardinality({j \in HeldTargets : examined[j].location = examined[k].location})

SkipCounts ==
  /\ Len(warnings) = Cardinality(HeldTargets)
  /\ Len(output_list) = Len(examined) - Cardinality(HeldTargets)
  /\ \A n \in 1..Len(output_list) :
        \E k \in 1..Len(examined) : ~TargetHeld(k) /\ output_list[n][1] = examined[k].location

\* C1 (as claimed): under --action 0, a line whose target holds a file when
\* the line is examined is not written or removed, gets exactly one Warning,
\* does not reach the serializer and the writer, and the file holds after the
\* run what it held before the run.
C1_SkipLeavesFile ==
  action_num = "0" =>
    /\ \A k \in HeldTargets :
          /\ SkipLeaves(k)
          /\ TargetOf(k) \in DOMAIN fs0 => fs[TargetOf(k)] = fs0[TargetOf(k)]
    /\ SkipCounts

\* C1 (amended): as claimed, but the file holds after the run what it held
\* before the run unless it is <gen_location>/error.txt: that file
\* warnings_errors_summary replaces with its log, and not before the run's end.
C1_SkipLeavesFileButLog ==
  action_num = "0" =>
    /\ \A k \in HeldTargets :
          /\ SkipLeaves(k)
          /\ (TargetOf(k) \in DOMAIN fs0 /\ (TargetOf(k) # ErrorTarget \/ pc # "done"))
                => fs[TargetOf(k)] = fs0[TargetOf(k)]
          /\ (TargetOf(k) = ErrorTarget /\ pc = "done")
                => fs[TargetOf(k)] = File(ErrorLog(warnings, errors))
    /\ SkipCounts

\* C1's case: a run under --action 0 that ended, having skipped a line whose
\* file was there and written another line's file.
C1_Witness ==
  /\ action_num = "0"
  /\ pc = "done"
  /\ written # <<>>
  /\ \E k \in 1..Len(examined) :
        /\ examined[k].existed
        /\ TargetOf(k) \in FilesOf(fs0)
        /\ TargetOf(k) # ErrorTarget

\* R with the header fields defaulted: name and version empty when absent
Defaulted(R) ==
  [f \in DOMAIN R \cup {NAME, VERSION} |-> IF f \in DOMAIN R THEN R[f] ELSE <<>>]

\* C4 (as claimed): when no line's target holds a file, every line with an
\* about_resource is generated under each policy, without a failure, and the
\* text made of it is the text of the line with name and version defaulted to
\* the empty string when the line has none.
C4_NoFileThereIsGenerated ==
  (\A k \in 1..Len(examined) : ~TargetHeld(k)) =>
    /\ pc # "crash"
    /\ \A k \in 1..Len(examined) : examined[k].kept
    /\ \A n \in 1..Len(formatted) :
          formatted[n] = <<examined[n].location,
                           Context(Defaulted(examined[n].line),
                                   SetToSeq(DOMAIN Defaulted(examined[n].line)))>>

\* C9 (as claimed): a line whose about_file or about_resource is empty, the
\* columns being there, adds exactly one Error and is dropped: no target is
\* resolved and nothing is made for it; the run goes on, it does not exit,
\* and every valid line is still generated.
C9_DroppedLineOnly ==
  ({ABOUT_FILE, ABOUT_RESOURCE} \subseteq fieldnames
     /\ \E k \in 1..Len(csv_file) : Dropped(csv_file[k])) =>
    /\ pc \notin {"exit", "crash"}
    /\ pc # "read" =>
          /\ Len(errors) = Cardinality({k \in 1..Len(csv_file) : Dropped(csv_file[k])})
          /\ input_list = ValidLines(csv_file)
    /\ \A k \in 1..Len(examined) : Valid(examined[k].line)
    /\ pc = "done" =>
          \A k \in 1..Len(input_list) :
             \/ (action_num = "0" /\ TargetHeld(k))
             \/ TargetOf(k) \in Range(written)

\* C10 (as claimed): the write of a record is over before the next record's
\* existence check, so a later record of the run with the same target finds
\* the file of the earlier record there.
C10_LaterSeesEarlier ==
  \A j, k \in 1..Len(examined) :
     (j < k /\ examined[j].kept /\ TargetOf(j) = TargetOf(k)) => examined[k].existed

\* the text write_output has last been given for target q
LastText(q) ==
  formatted[Max({n \in 1..Len(formatted) : Abspath(formatted[n][1]) = q})][2]

\* C10 (amended): the records are taken in input order, but stage by stage:
\* pre_generation examines every record before any is serialized or written.
\* While records are examined no file is written or removed, so a record's
\* existence check sees the files of before the run, not the file of an
\* earlier record of the run; the files are then written in input order, and
\* a target that several records share holds the text of the last one when
\* write_output returns.
C10_StageByStage ==
  /\ pc \in {"read", "pre", "format"} =>
        /\ written = <<>>
        /\ FilesOf(fs) = FilesOf(fs0)
        /\ \A q \in FilesOf(fs0) : fs[q] = fs0[q]
  /\ pc \in {"format", "write", "summary", "done"} => Len(examined) = Len(input_list)
  /\ \A k \in 1..Len(examined) :
        /\ examined[k].line = input_list[k][1]
        /\ TargetOf(k) \in DOMAIN fs0 => examined[k].existed
        /\ examined[k].existed =>
              \/ TargetOf(k) \in DOMAIN fs0
              \/ (TargetOf(k) \in DOMAIN fs /\ fs[TargetOf(k)].kind = "dir")
  /\ \A n \in 1..Len(written) : written[n] = Abspath(formatted[n][1])
  /\ pc = "summary" =>
        /\ Len(written) = Len(output_list)
        /\ \A q \in Range(written) : fs[q] = File(LastText(q))

\* C10's case: two records of a run share a target where no file was; neither
\* is skipped, and the target holds the text of the later one, not the other's.
C10_Witness ==
  /\ pc = "summary"
  /\ \E j, k \in 1..Len(examined) :
        /\ j < k
        /\ TargetOf(j) = TargetOf(k)
        /\ ~examined[j].existed /\ ~examined[k].existed
        /\ examined[j].kept /\ examined[k].kept
        /\ formatted[j][2] # formatted[k][2]
        /\ fs[TargetOf(k)] = File(formatted[k][2])

\* the fields of the file that stood at the k-th examined line's target
ExistingOf(k) == about_parsed[TargetOf(k)]

LowerNames(E) == {Lower(f) : f \in DOMAIN E}

\* C2: under --action 1, with a file at the target, the Final Record is the
\* incoming Record plus every field of the Existing Record whose name the
\* incoming Record lacks or holds empty, with the Existing Record's value;
\* every field the incoming Record holds non-empty keeps its incoming value.
\* (Names are those of the dicts: the existing names lower-cased, the
\* incoming names as the header spells them.)
C2_FillMissing ==
  action_num = "1" =>
    \A k \in 1..Len(examined) :
       examined[k].existed =>
         LET R == examined[k].line
             E == ExistingOf(k)
             F == examined[k].final
         IN /\ examined[k].kept
            /\ output_list[k] = <<examined[k].location, F>>
            /\ DOMAIN F = DOMAIN R \cup LowerNames(E)
            /\ \A f \in DOMAIN E :
                  (Lower(f) \notin DOMAIN R \/ R[Lower(f)] = <<>>) => F[Lower(f)] = E[f]
            /\ \A g \in DOMAIN R : R[g] # <<>> => F[g] = R[g]
            /\ \A g \in DOMAIN R \ LowerNames(E) : F[g] = R[g]

\* C2's case: a merge under --action 1 where the line's name stands against
\* another name of the file, the line's empty notes are filled from the file,
\* and the file has a field the line lacks.
C2_Witness ==
  /\ action_num = "1"
  /\ \E k \in 1..Len(examined) :
        /\ examined[k].existed
        /\ {NAME, NOTES} \subseteq DOMAIN examined[k].line
        /\ {NAME, NOTES, OWNER} \subseteq DOMAIN ExistingOf(k)
        /\ examined[k].line[NAME] = <<"n">> /\ ExistingOf(k)[NAME] = <<"o">>
        /\ examined[k].line[NOTES] = <<>> /\ ExistingOf(k)[NOTES] = <<"u">>
        /\ examined[k].final[NAME] = <<"n">>
        /\ examined[k].final[NOTES] = <<"u">>
        /\ examined[k].final[Lower(OWNER)] = <<"w">>

\* C3: under --action 2, with a file at the target, the Final Record holds
\* the Existing Record's value for every field of the Existing Record, also
\* against a different non-empty incoming value, and every field of the
\* incoming Record alone keeps its incoming value.
C3_PreferExisting ==
  action_num = "2" =>
    \A k \in 1..Len(examined) :
       examined[k].existed =>
         LET R == examined[k].line
             E == ExistingOf(k)
             F == examined[k].final
         IN /\ examined[k].kept
            /\ output_list[k] = <<examined[k].location, F>>
            /\ DOMAIN F = DOMAIN R \cup LowerNames(E)
            /\ \A f \in DOMAIN E : F[Lower(f)] = E[f]
            /\ \A g \in DOMAIN R \ LowerNames(E) : F[g] = R[g]

\* C3's case: a merge under --action 2 where the file's name replaces another
\* name of the line, and the notes, which the line alone has, stay.
C3_Witness ==
  /\ action_num = "2"
  /\ \E k \in 1..Len(examined) :
        /\ examined[k].existed
        /\ {NAME, NOTES} \subseteq DOMAIN examined[k].line
        /\ NAME \in DOMAIN ExistingOf(k) /\ NOTES \notin DOMAIN ExistingOf(k)
        /\ examined[k].line[NAME] = <<"n">> /\ ExistingOf(k)[NAME] = <<"o">>
        /\ examined[k].final[NAME] = <<"o">>
        /\ examined[k].final[NOTES] = <<"t">>

\* C8 (as claimed): after a merge under --action 1 or 2 every key of the
\* Final Record is lower-case, and no two of its keys differ only in case.
C8_MergedKeysLowerCase ==
  action_num \in {"1", "2"} =>
    \A k \in 1..Len(examined) :
       (examined[k].existed /\ examined[k].kept) =>
          /\ \A g \in DOMAIN examined[k].final : g = Lower(g)
          /\ \A g, h \in DOMAIN examined[k].final : Lower(g) = Lower(h) => g = h

\* a value with one space added after each of its line breaks
RECURSIVE Continued(_)
Continued(v) ==
  IF v = <<>> THEN <<>>
  ELSE Continued(SubSeq(v, 1, Len(v) - 1))
         \o (IF v[Len(v)] = "\n" THEN <<"\n", " ">> ELSE <<v[Len(v)]>>)

\* one line `<field>: <value>` for each field of S, the least name first
RECURSIVE FieldLines(_, _)
FieldLines(d, S) ==
  IF S = {} THEN <<>>
  ELSE LET least == CHOOSE f \in S : \A g \in S \ {f} : StrLess(f, g)
       IN least \o <<":", " ">> \o Continued(d[least]) \o <<"\n">>
            \o FieldLines(d, S \ {least})

\* the fields below the header: not a header field, not warnings or errors,
\* and not empty
Remaining(d) ==
  {f \in DOMAIN d : f \notin {ABOUT_RESOURCE, NAME, VERSION, WARNINGS, ERRORS}
                      /\ d[f] # <<>>}

HeaderLine(d, f) == f \o <<":", " ">> \o d[f] \o <<"\n">>

\* C5: for a Final Record holding about_resource, name and version, the text
\* is the three header lines in that order, empty values included, a blank
\* line, and one line `<field>: <value>` for each other field that is not
\* empty and not warnings or errors, in the order of the names; nothing else,
\* in whatever order the dict hands out its keys.
C5_TextOfRecord ==
  \A n \in 1..Len(formatted) :
     LET d == output_list[n][2]
     IN MANDATORY_FIELDS \subseteq DOMAIN d =>
          formatted[n] =
            << output_list[n][1],
               HeaderLine(d, ABOUT_RESOURCE) \o HeaderLine(d, NAME)
                 \o HeaderLine(d, VERSION) \o <<"\n">> \o FieldLines(d, Remaining(d)) >>

\* C5's case: the text of a record with an empty version, empty notes, a
\* warnings field, and two more fields, one of them spelled in upper case.
C5_Witness ==
  \E n \in 1..Len(formatted) :
     LET d == output_list[n][2]
     IN /\ {NOTES, WARNINGS, ALPHA, UPPER_NAME} \subseteq DOMAIN d
        /\ d[VERSION] = <<>>
        /\ d[NOTES] = <<>>
        /\ formatted[n][2] =
             ABOUT_RESOURCE \o <<":", " ", "r", "\n">>
               \o NAME \o <<":", " ", "n", "\n">>
               \o VERSION \o <<":", " ", "\n", "\n">>
               \o UPPER_NAME \o <<":", " ", "N", "\n">>
               \o ABOUT_FILE \o <<":", " ", "x", "\n">>
               \o ALPHA \o <<":", " ", "2", "\n">>

\* C7 (as claimed): in the text of a record every value, those of the three
\* header fields included, has one space added after each of its line
\* breaks, so that no continuation line starts at column 0.
C7_EveryValueContinued ==
  \A n \in 1..Len(formatted) :
     LET d == output_list[n][2]
         c == [f \in DOMAIN d |-> Continued(d[f])]
     IN MANDATORY_FIELDS \subseteq DOMAIN d =>
          formatted[n][2] =
            HeaderLine(c, ABOUT_RESOURCE) \o HeaderLine(c, NAME)
              \o HeaderLine(c, VERSION) \o <<"\n">> \o FieldLines(d, Remaining(d))

\* the last component of a path: what follows its last separator
LastComponent(path) ==
  LET n == CHOOSE m \in 0..Len(path) :
             /\ \A j \in (Len(path) - m + 1)..Len(path) : path[j] # "/"
             /\ (m = Len(path) \/ path[Len(path) - m] = "/")
  IN SubSeq(path, Len(path) - n + 1, Len(path))

OneLeadingSeparatorOff(path) ==
  IF path # <<>> /\ path[1] = "/" THEN Tail(path) ELSE path

\* the output root joined with `rest`: a rest that is still absolute stands
\* alone, as os.path.join has it
UnderRoot(rest) ==
  IF rest # <<>> /\ rest[1] = "/" THEN rest ELSE gen_location \o <<"/">> \o rest

HasSuffix(path) ==
  Len(path) >= Len(DOT_ABOUT)
    /\ SubSeq(path, Len(path) - Len(DOT_ABOUT) + 1, Len(path)) = DOT_ABOUT

\* C6: the target is the output root joined with the declared
\* path, a single leading separator stripped, reduced to its last component
\* in all-in-one mode, and with .ABOUT appended when the path does not end
\* in it.
C6_TargetWithSuffix ==
  \A k \in 1..Len(examined) :
     LET path == OneLeadingSeparatorOff(examined[k].line[ABOUT_FILE])
         rest == IF all_in_one THEN LastComponent(path) ELSE path
     IN examined[k].location =
          UnderRoot(IF HasSuffix(rest) THEN rest ELSE rest \o DOT_ABOUT)

====
